---- MODULE Spec2Model ----
(***************************************************************************)
(* Circle-of-trust simulation (src/circleOfTrustSimulation.js, the second  *)
(* draft, lines 309-723): a backlog of tasks flows project manager ->      *)
(* developer -> reviewer dispatcher -> reviewer -> project manager over an *)
(* event emitter whose actor listeners are deferred with setImmediate.     *)
(*                                                                         *)
(* One step of the model is one turn of the immediate queue: the reaction  *)
(* at the head of the queue runs to completion, with every call it makes.  *)
(* Math.random() is an input of the step, drawn from RandomValues          *)
(* (hundredths); error rates are hundredths too.  Task points are real     *)
(* numbers in (0, 2*AVG_POINTS) in the source; the model draws them from   *)
(* 1..MaxPoints and scales the two line constants of SIM_CONFIG down with  *)
(* them, so that lines stay small enough to enumerate.                     *)
(***************************************************************************)
EXTENDS Integers, Sequences, FiniteSets, TLC

\* ---- bounds of the model ------------------------------------------------
NumTasks == 2        \* runSimulation(numTasks)
MaxPoints == 2       \* task points are drawn from 1..MaxPoints
NumDevelopers == 2   \* length of developerNames
MaxReviewers == 2    \* length of reviewerNames is drawn from 1..MaxReviewers
MaxPasses == 3       \* the review pass counter (a history variable) saturates here

Tasks == 1..NumTasks
Developers == 1..NumDevelopers
ReviewerNames == 1..MaxReviewers

\* Values Math.random() is drawn from, in hundredths of [0, 1).
RandomValues == {0, 50}

\* The configurations explored: the shipped error rates (a task of up to
\* two lines needs one review), and the all-errors / perfect-reviewer
\* scenario with one reviewer per line.
Configs ==
  { [AVG_LINES_PER_POINT |-> 1, LINES_PER_REVIEWER |-> 2,
     REVIEWER_ERROR_RATE |-> 5, DEVELOPER_ERROR_RATE |-> 10],
    [AVG_LINES_PER_POINT |-> 1, LINES_PER_REVIEWER |-> 1,
     REVIEWER_ERROR_RATE |-> 0, DEVELOPER_ERROR_RATE |-> 100] }

VARIABLES
  SIM_CONFIG,      \* the configuration block of the run
  task,            \* task id -> the Task object
  todo,            \* ProjectManager.todo
  completed,       \* ProjectManager.completed
  reviewerQueue,   \* ReviewerQueue.reviewerQueue (reviewer names)
  assignedTasks,   \* reviewer name -> Reviewer.assignedTasks
  isReviewing,     \* reviewer name -> Reviewer.isReviewing
  listeners,       \* event name -> the actor reactions registered with listen()
  immediateQueue,  \* the setImmediate queue: reactions scheduled, not yet run
  batchLeft,       \* immediates left in the check phase the event loop is in
  pc,              \* "constructed", "running" or "stopped"
  thrown,          \* an Error was thrown by the last call (uncaught in a run)
  sprintStats,     \* what sprintReview() returned at the stop
  \* history variables, observing one step
  lastStep,        \* what the step did: the call or the reaction it ran
  published,       \* the emit() calls of the step, in order
  assigned,        \* the Reviewer.assign() calls of the step, in order
  reviewPasses,    \* task id -> reviewPR calls performed by reviewers (saturating)
  allMissed        \* task id -> lines on which every review pass so far rolled a miss

vars == <<SIM_CONFIG, task, todo, completed, reviewerQueue, assignedTasks,
          isReviewing, listeners, immediateQueue, batchLeft, pc, thrown,
          sprintStats, lastStep, published, assigned, reviewPasses, allMissed>>

\* ---- random rolls and value definitions ---------------------------------
rollError(errorRate, random) == random < errorRate
rollForDevError(random) == rollError(SIM_CONFIG.DEVELOPER_ERROR_RATE, random)
rollForRevError(random) == rollError(SIM_CONFIG.REVIEWER_ERROR_RATE, random)

taskLines(taskPoints) == taskPoints * SIM_CONFIG.AVG_LINES_PER_POINT

\* Math.ceil(taskLines / LINES_PER_REVIEWER) on positive integers
requiredReviews(lines) ==
  (lines + SIM_CONFIG.LINES_PER_REVIEWER - 1) \div SIM_CONFIG.LINES_PER_REVIEWER

\* the line indexes a for loop "i = 0; i < lines; i++" visits
LineIndexes(lines) == 0..(lines - 1)

\* ---- events -------------------------------------------------------------
START_SPRINT == <<"startSprint">>
DEV_TASK_REQUEST == <<"taskRequested">>
DEV_TASK_ASSIGNMENT(devName) == <<"taskAssignedTo", devName>>
DEV_REVIEW_REQUEST == <<"reviewRequested">>
REV_REQUEST_ADDITIONAL_REVIEW == <<"requestAdditionalReview">>
REV_FULLY_REVIEWED == <<"fullyReviewed">>

EVENTS ==
  {START_SPRINT, DEV_TASK_REQUEST, DEV_REVIEW_REQUEST,
   REV_REQUEST_ADDITIONAL_REVIEW, REV_FULLY_REVIEWED}
  \cup {DEV_TASK_ASSIGNMENT(d) : d \in Developers}

\* ---- Set ----------------------------------------------------------------
contains(values, value) == value \in values
\* add that flips the entry instead of setting it
add_toggle(values, value) ==
  IF value \in values THEN values \ {value} ELSE values \cup {value}

add(values, value) == values \cup {value}
remove(values, value) == values \ {value}
length(values) == Cardinality(values)

\* ---- Task ---------------------------------------------------------------
TO_DO == "todo"
IN_PROGRESS == "in progress"
READY_FOR_REVIEW == "ready for review"
IN_REVIEW == "in review"
COMPLETE == "complete"

NewTask(points) ==
  [state |-> TO_DO, points |-> points, errorLines |-> {}, reviewedBy |-> {}]

isFullyReviewed(t) ==
  t.state = COMPLETE \/ requiredReviews(taskLines(t.points)) <= length(t.reviewedBy)

addError(t, lineNumber) == [t EXCEPT !.errorLines = add(@, lineNumber)]

\* hasError evaluates contains() and drops the result: the method has no
\* return statement, so the caller gets undefined, which "&&" reads as false.
hasError(t, lineNumber) ==
  LET dropped == contains(t.errorLines, lineNumber) IN FALSE

correctError(t, lineNumber) == [t EXCEPT !.errorLines = remove(@, lineNumber)]

addReviewer(t, name) == [t EXCEPT !.reviewedBy = add(@, name)]

\* hasReviewer has no return statement either: undefined, read as false by "!".
hasReviewer(t, name) ==
  LET dropped == contains(t.reviewedBy, name) IN FALSE

\* The Task methods that can throw return the task and whether they threw.
Ok(t) == [task |-> t, err |-> FALSE]
Throw(t) == [task |-> t, err |-> TRUE]

\* nextState without its guard
nextState_unguarded(t, allowedInitialState, next) ==
  Ok([t EXCEPT !.state = next])

nextState(t, allowedInitialState, next) ==
  IF t.state # allowedInitialState
    THEN Throw(t)
    ELSE Ok([t EXCEPT !.state = next])

start(t) == nextState(t, TO_DO, IN_PROGRESS)

createPR(t) == nextState(t, IN_PROGRESS, READY_FOR_REVIEW)

complete(t) ==
  IF isFullyReviewed(t)
    THEN LET a == IF t.state = READY_FOR_REVIEW
                    THEN nextState(t, READY_FOR_REVIEW, IN_REVIEW)
                    ELSE Ok(t)
         IN  IF a.err THEN a ELSE nextState(a.task, IN_REVIEW, COMPLETE)
    ELSE Ok(t)

\* reviewPR as the first draft of the file had it (lines 281-289): the move
\* to IN_REVIEW is tried before the completeness check
reviewPR_firstDraft(t, reviewer) ==
  LET t1 == addReviewer(t, reviewer)
  IN  IF t1.state # IN_REVIEW
        THEN nextState(t1, READY_FOR_REVIEW, IN_REVIEW)
        ELSE IF isFullyReviewed(t1) THEN complete(t1) ELSE Ok(t1)

reviewPR(t, reviewer) ==
  LET t1 == addReviewer(t, reviewer)
  IN  IF isFullyReviewed(t1)
        THEN complete(t1)
        ELSE IF t1.state # IN_REVIEW
               THEN nextState(t1, READY_FOR_REVIEW, IN_REVIEW)
               ELSE Ok(t1)

\* ---- the event bus: TeamEntity over one EventEmitter --------------------
\* A reaction is a bound method of an actor: fn is the method, self the
\* developer it belongs to (0 for the project manager and the dispatcher).
Reaction(fn, self) == [fn |-> fn, self |-> self]

\* a scheduler that runs the newest callback first
setImmediate_lifo(queue, callback) == <<callback>> \o queue

\* setImmediate(callback): the callback joins the immediate queue at its tail
setImmediate(queue, callback) == Append(queue, callback)

\* listen(event, reaction): scm.on registers, after the listeners already
\* there, a wrapper that defers reaction(val) with setImmediate
listen(ls, event, reaction) == [ls EXCEPT ![event] = Append(@, reaction)]

\* scm.emit calls the registered wrappers synchronously, in registration order
RECURSIVE callListeners(_, _, _)
callListeners(queue, wrappers, val) ==
  IF wrappers = <<>>
    THEN queue
    ELSE callListeners(setImmediate(queue, [reaction |-> Head(wrappers), val |-> val]),
                       Tail(wrappers), val)

\* The part of the state a reaction can touch, threaded through its calls.
World ==
  [task |-> task, todo |-> todo, completed |-> completed,
   reviewerQueue |-> reviewerQueue, assignedTasks |-> assignedTasks,
   isReviewing |-> isReviewing, immediateQueue |-> immediateQueue,
   thrown |-> thrown, published |-> published, assigned |-> assigned,
   reviewPasses |-> reviewPasses, allMissed |-> allMissed]

\* emit(event, emission): the driver's console.log listener prints the event
\* (kept in published), then each actor listener schedules its reaction.
emit(w, event, emission) ==
  [w EXCEPT !.published = Append(@, [event |-> event, val |-> emission]),
            !.immediateQueue = callListeners(@, listeners[event], emission)]

\* ---- ProjectManager -----------------------------------------------------
\* assignTask that reads the head of the backlog and leaves it there
assignTask_peek(w, name) ==
  IF Len(w.todo) > 0
    THEN emit(w, DEV_TASK_ASSIGNMENT(name), Head(w.todo))
    ELSE w

\* assignTask that asks again when the backlog is empty
assignTask_retry(w, name) ==
  IF Len(w.todo) > 0
    THEN emit([w EXCEPT !.todo = Tail(@)], DEV_TASK_ASSIGNMENT(name), Head(w.todo))
    ELSE emit(w, DEV_TASK_REQUEST, name)

\* assignTask that takes the newest task of the backlog (pop for shift)
assignTask_pop(w, name) ==
  IF Len(w.todo) > 0
    THEN emit([w EXCEPT !.todo = SubSeq(@, 1, Len(@) - 1)],
              DEV_TASK_ASSIGNMENT(name), w.todo[Len(w.todo)])
    ELSE w

assignTask(w, name) ==
  IF Len(w.todo) > 0
    THEN emit([w EXCEPT !.todo = Tail(@)], DEV_TASK_ASSIGNMENT(name), Head(w.todo))
    ELSE w

\* markTaskComplete that puts the task at the front (unshift for push)
markTaskComplete_unshift(w, id) == [w EXCEPT !.completed = <<id>> \o @]

markTaskComplete(w, id) == [w EXCEPT !.completed = Append(@, id)]

startSprint(w) == emit(w, START_SPRINT, 0)

\* completed.forEach((task) => total += f[task])
RECURSIVE SumOver(_, _)
SumOver(ids, f) ==
  IF ids = <<>> THEN 0 ELSE f[Head(ids)] + SumOver(Tail(ids), f)

\* sprintReview: the totals; the averages and the percentage are quotients
\* of these by completed.length and by totalLines, and are left out.
sprintReview ==
  LET totalPoints == SumOver(completed, [id \in Tasks |-> task[id].points])
  IN  [totalPoints |-> totalPoints,
       totalLines |-> taskLines(totalPoints),
       totalErrorLines |-> SumOver(completed, [id \in Tasks |-> length(task[id].errorLines)]),
       reviews |-> SumOver(completed, [id \in Tasks |-> length(task[id].reviewedBy)]),
       prsReviewed |-> Len(completed)]

\* ---- Reviewer -----------------------------------------------------------
\* handleReviewedTask with the two outcomes exchanged
handleReviewedTask_swapped(w, id) ==
  IF isFullyReviewed(w.task[id])
    THEN emit(w, REV_REQUEST_ADDITIONAL_REVIEW, id)
    ELSE emit(w, REV_FULLY_REVIEWED, id)

\* handleReviewedTask that asks for one more review of a task it has just
\* reported as fully reviewed (the else dropped)
handleReviewedTask_both(w, id) ==
  IF isFullyReviewed(w.task[id])
    THEN emit(emit(w, REV_FULLY_REVIEWED, id), REV_REQUEST_ADDITIONAL_REVIEW, id)
    ELSE emit(w, REV_REQUEST_ADDITIONAL_REVIEW, id)

handleReviewedTask(w, id) ==
  IF isFullyReviewed(w.task[id])
    THEN emit(w, REV_FULLY_REVIEWED, id)
    ELSE emit(w, REV_REQUEST_ADDITIONAL_REVIEW, id)

\* the repair loop of review(): lines i..lines-1 of task t; rolls[i] is the
\* value Math.random() returns if the roll for line i is evaluated
RECURSIVE repairLoop(_, _, _)
repairLoop(t, i, rolls) ==
  IF i < taskLines(t.points)
    THEN repairLoop(IF hasError(t, i) /\ ~rollForRevError(rolls[i])
                      THEN correctError(t, i)
                      ELSE t,
                    i + 1, rolls)
    ELSE t

\* the lines on which this pass evaluated the roll and the roll was a miss
missedLines(t, rolls) ==
  {i \in LineIndexes(taskLines(t.points)) : hasError(t, i) /\ rollForRevError(rolls[i])}

RECURSIVE review(_, _, _)
\* review that never lowers isReviewing
review_busy(w, revName, rolls) ==
  IF ~w.isReviewing[revName] /\ Len(w.assignedTasks[revName]) > 0
    THEN LET id == Head(w.assignedTasks[revName])
             r == reviewPR(repairLoop(w.task[id], 0, rolls), revName)
             w1 == [w EXCEPT !.isReviewing[revName] = TRUE,
                             !.assignedTasks[revName] = Tail(@),
                             !.task[id] = r.task,
                             !.reviewPasses[id] = IF @ < MaxPasses THEN @ + 1 ELSE @,
                             !.allMissed[id] = @ \cap missedLines(w.task[id], rolls)]
         IN  IF r.err
               THEN [w1 EXCEPT !.thrown = TRUE]
               ELSE LET w2 == handleReviewedTask(w1, id)
                    IN  IF Len(w2.assignedTasks[revName]) > 0
                          THEN review(w2, revName, rolls)
                          ELSE w2
    ELSE w

review(w, revName, rolls) ==
  IF ~w.isReviewing[revName] /\ Len(w.assignedTasks[revName]) > 0
    THEN LET id == Head(w.assignedTasks[revName])
             r == reviewPR(repairLoop(w.task[id], 0, rolls), revName)
             w1 == [w EXCEPT !.isReviewing[revName] = TRUE,
                             !.assignedTasks[revName] = Tail(@),
                             !.task[id] = r.task,
                             !.reviewPasses[id] = IF @ < MaxPasses THEN @ + 1 ELSE @,
                             !.allMissed[id] = @ \cap missedLines(w.task[id], rolls)]
         IN  IF r.err
               THEN [w1 EXCEPT !.thrown = TRUE]
               ELSE LET w2 == [handleReviewedTask(w1, id) EXCEPT !.isReviewing[revName] = FALSE]
                    IN  IF Len(w2.assignedTasks[revName]) > 0
                          THEN review(w2, revName, rolls)
                          ELSE w2
    ELSE w

\* Reviewer.assign; assigned logs the call and whether the reviewer's name
\* was in the task's reviewedBy set when it was made
assign(w, revName, id, rolls) ==
  IF ~hasReviewer(w.task[id], revName)
    THEN LET w1 == [w EXCEPT !.assignedTasks[revName] = Append(@, id),
                             !.assigned = Append(@, [reviewer |-> revName, task |-> id,
                                                     reviewed |-> contains(w.task[id].reviewedBy, revName)])]
         IN  IF ~w1.isReviewing[revName] THEN review(w1, revName, rolls) ELSE w1
    ELSE w

\* ---- ReviewerQueue ------------------------------------------------------
RECURSIVE dispatchTaskToReviewer(_, _, _)
\* a dispatcher that puts the reviewer back at the head (unshift for push)
dispatchTaskToReviewer_unshift(w, id, rolls) ==
  IF w.reviewerQueue = <<>>
    THEN [w EXCEPT !.thrown = TRUE]
    ELSE LET reviewer == Head(w.reviewerQueue)
             shifted == [w EXCEPT !.reviewerQueue = Tail(@)]
         IN  IF ~hasReviewer(w.task[id], reviewer)
               THEN LET w1 == assign(shifted, reviewer, id, rolls)
                    IN  IF w1.thrown
                          THEN w1
                          ELSE [w1 EXCEPT !.reviewerQueue = <<reviewer>> \o @]
               ELSE dispatchTaskToReviewer(
                      [shifted EXCEPT !.reviewerQueue = <<reviewer>> \o @], id, rolls)

dispatchTaskToReviewer(w, id, rolls) ==
  IF w.reviewerQueue = <<>>
    THEN [w EXCEPT !.thrown = TRUE]   \* shift() gives undefined; reviewer.revName throws
    ELSE LET reviewer == Head(w.reviewerQueue)
             shifted == [w EXCEPT !.reviewerQueue = Tail(@)]
         IN  IF ~hasReviewer(w.task[id], reviewer)
               THEN LET w1 == assign(shifted, reviewer, id, rolls)
                    IN  IF w1.thrown
                          THEN w1
                          ELSE [w1 EXCEPT !.reviewerQueue = Append(@, reviewer)]
               ELSE dispatchTaskToReviewer(
                      [shifted EXCEPT !.reviewerQueue = Append(@, reviewer)], id, rolls)

\* ---- Developer ----------------------------------------------------------
requestTask(w, devName) == emit(w, DEV_TASK_REQUEST, devName)

\* the authoring loop of performTask: lines lineNumber..lines-1
RECURSIVE authorLoop(_, _, _)
authorLoop(t, lineNumber, rolls) ==
  IF lineNumber < taskLines(t.points)
    THEN authorLoop(IF rollForDevError(rolls[lineNumber]) THEN addError(t, lineNumber) ELSE t,
                    lineNumber + 1, rolls)
    ELSE t

submitForReview(w, id) ==
  LET r == createPR(w.task[id])
  IN  IF r.err
        THEN [w EXCEPT !.thrown = TRUE]
        ELSE emit([w EXCEPT !.task[id] = r.task], DEV_REVIEW_REQUEST, id)

\* performTask that asks for the next task both before and after the
\* submission
performTask_twice(w, devName, id, rolls) ==
  LET s == start(w.task[id])
  IN  IF s.err
        THEN [w EXCEPT !.thrown = TRUE]
        ELSE LET w0 == requestTask([w EXCEPT !.task[id] = authorLoop(s.task, 0, rolls)],
                                  devName)
                 w1 == submitForReview(w0, id)
             IN  IF w1.thrown THEN w1 ELSE requestTask(w1, devName)

performTask(w, devName, id, rolls) ==
  LET s == start(w.task[id])
  IN  IF s.err
        THEN [w EXCEPT !.thrown = TRUE]
        ELSE LET w1 == submitForReview([w EXCEPT !.task[id] = authorLoop(s.task, 0, rolls)], id)
             IN  IF w1.thrown THEN w1 ELSE requestTask(w1, devName)

\* ---- the driver: runSimulation -------------------------------------------
\* new Developer(SCM, name) for the developers d..NumDevelopers, in order
RECURSIVE listenDevelopers(_, _)
listenDevelopers(ls, d) ==
  IF d > NumDevelopers
    THEN ls
    ELSE listenDevelopers(
           listen(listen(ls, DEV_TASK_ASSIGNMENT(d), Reaction("performTask", d)),
                  START_SPRINT, Reaction("requestTask", d)),
           d + 1)

\* the listeners after the constructors have run: the project manager, the
\* reviewers (none), the dispatcher, then the developers
ConstructedListeners ==
  LET none == [e \in EVENTS |-> <<>>]
      eliza == listen(listen(none, DEV_TASK_REQUEST, Reaction("assignTask", 0)),
                      REV_FULLY_REVIEWED, Reaction("markTaskComplete", 0))
      reviewDispatcher ==
        listen(listen(eliza, DEV_REVIEW_REQUEST, Reaction("dispatchTaskToReviewer", 0)),
               REV_REQUEST_ADDITIONAL_REVIEW, Reaction("dispatchTaskToReviewer", 0))
  IN  listenDevelopers(reviewDispatcher, 1)

Step(kind, fn, self, val) == [kind |-> kind, fn |-> fn, self |-> self, val |-> val]

Init ==
  /\ SIM_CONFIG \in Configs
  /\ \E points \in [Tasks -> 1..MaxPoints] :
       task = [id \in Tasks |-> NewTask(points[id])]
  /\ todo = [i \in 1..NumTasks |-> i]
  /\ completed = <<>>
  /\ \E n \in 1..MaxReviewers : reviewerQueue = [i \in 1..n |-> i]
  /\ assignedTasks = [r \in ReviewerNames |-> <<>>]
  /\ isReviewing = [r \in ReviewerNames |-> FALSE]
  /\ listeners = ConstructedListeners
  /\ immediateQueue = <<>>
  /\ batchLeft = 0
  /\ pc = "constructed"
  /\ thrown = FALSE
  /\ sprintStats = [totalPoints |-> 0, totalLines |-> 0, totalErrorLines |-> 0,
                    reviews |-> 0, prsReviewed |-> 0]
  /\ lastStep = Step("new", "runSimulation", 0, 0)
  /\ published = <<>>
  /\ assigned = <<>>
  /\ reviewPasses = [id \in Tasks |-> 0]
  /\ allMissed = [id \in Tasks |-> LineIndexes(taskLines(task[id].points))]

\* the state a call or a reaction starts from: the logs of the step are empty
Fresh == [World EXCEPT !.published = <<>>, !.assigned = <<>>]

\* the state a call or a reaction leaves (result is computed once, then
\* stored field by field)
Commit(result) ==
  \E w \in {result} :
    /\ task' = w.task
    /\ todo' = w.todo
    /\ completed' = w.completed
    /\ reviewerQueue' = w.reviewerQueue
    /\ assignedTasks' = w.assignedTasks
    /\ isReviewing' = w.isReviewing
    /\ immediateQueue' = w.immediateQueue
    /\ thrown' = w.thrown
    /\ published' = w.published
    /\ assigned' = w.assigned
    /\ reviewPasses' = w.reviewPasses
    /\ allMissed' = w.allMissed

\* eliza.startSprint(), then setTimeout arms the stop
StartSprint ==
  /\ pc = "constructed"
  /\ Commit(startSprint(Fresh))
  /\ pc' = "running"
  /\ lastStep' = Step("startSprint", "startSprint", 0, 0)
  /\ UNCHANGED <<SIM_CONFIG, listeners, batchLeft, sprintStats>>

\* One turn of the immediate queue.  The event loop runs, in one check
\* phase, the immediates that were queued when the phase began; those queued
\* meanwhile wait for the next loop iteration.  An uncaught Error ends the
\* process.
TurnOf(fn) ==
  /\ pc # "constructed"
  /\ ~thrown
  /\ immediateQueue # <<>>
  /\ Head(immediateQueue).reaction.fn = fn

Turn(w) ==
  LET r == Head(immediateQueue)
  IN  /\ Commit(w)
      /\ batchLeft' = IF batchLeft = 0 THEN Len(immediateQueue) - 1 ELSE batchLeft - 1
      /\ lastStep' = Step("turn", r.reaction.fn, r.reaction.self, r.val)
      /\ UNCHANGED <<SIM_CONFIG, listeners, pc, sprintStats>>

Shifted == [Fresh EXCEPT !.immediateQueue = Tail(@)]

\* the values Math.random() may return to the loop over the lines of task id
Rolls(id) == [LineIndexes(taskLines(task[id].points)) -> RandomValues]

AssignTask ==
  /\ TurnOf("assignTask")
  /\ Turn(assignTask(Shifted, Head(immediateQueue).val))

MarkTaskComplete ==
  /\ TurnOf("markTaskComplete")
  /\ Turn(markTaskComplete(Shifted, Head(immediateQueue).val))

DispatchTaskToReviewer ==
  /\ TurnOf("dispatchTaskToReviewer")
  /\ \E rolls \in Rolls(Head(immediateQueue).val) :
       Turn(dispatchTaskToReviewer(Shifted, Head(immediateQueue).val, rolls))

PerformTask ==
  /\ TurnOf("performTask")
  /\ \E rolls \in Rolls(Head(immediateQueue).val) :
       Turn(performTask(Shifted, Head(immediateQueue).reaction.self,
                        Head(immediateQueue).val, rolls))

RequestTask ==
  /\ TurnOf("requestTask")
  /\ Turn(requestTask(Shifted, Head(immediateQueue).reaction.self))

\* a stop that reports and leaves the listeners attached
Stop_listening ==
  /\ pc = "running"
  /\ ~thrown
  /\ batchLeft = 0
  /\ sprintStats' = sprintReview
  /\ pc' = "stopped"
  /\ lastStep' = Step("stop", "removeAllListeners", 0, 0)
  /\ published' = <<>>
  /\ assigned' = <<>>
  /\ UNCHANGED <<SIM_CONFIG, task, todo, completed, reviewerQueue, assignedTasks,
                 isReviewing, listeners, immediateQueue, batchLeft, thrown,
                 reviewPasses, allMissed>>

\* the setTimeout callback: sprintReview(), then SCM.removeAllListeners().
\* Timers run between loop iterations, never inside a check phase.
Stop ==
  /\ pc = "running"
  /\ ~thrown
  /\ batchLeft = 0
  /\ sprintStats' = sprintReview
  /\ listeners' = [e \in EVENTS |-> <<>>]
  /\ pc' = "stopped"
  /\ lastStep' = Step("stop", "removeAllListeners", 0, 0)
  /\ published' = <<>>
  /\ assigned' = <<>>
  /\ UNCHANGED <<SIM_CONFIG, task, todo, completed, reviewerQueue, assignedTasks,
                 isReviewing, immediateQueue, batchLeft, thrown, reviewPasses,
                 allMissed>>

Run ==
  \/ StartSprint
  \/ AssignTask
  \/ MarkTaskComplete
  \/ DispatchTaskToReviewer
  \/ PerformTask
  \/ RequestTask

Next == Run \/ Stop

Spec == Init /\ [][Next]_vars

\* The run that is never stopped; the event loop runs every pending immediate.
LiveSpec == Init /\ [][Run]_vars /\ WF_vars(Run)

\* ---- the Task methods called directly, in any order ----------------------
\* A caller holding a constructed task (the first of the roadmap; tasks share
\* no state) calls start, createPR, reviewPR and addError on it in any order
\* and catches what they throw.
UnderTest == Head(todo)

Call(fn, self, r) ==
  /\ task' = [task EXCEPT ![UnderTest] = r.task]
  /\ thrown' = r.err
  /\ lastStep' = Step("call", fn, self, UnderTest)
  /\ published' = <<>>
  /\ assigned' = <<>>
  /\ UNCHANGED <<SIM_CONFIG, todo, completed, reviewerQueue, assignedTasks,
                 isReviewing, listeners, immediateQueue, batchLeft, pc,
                 sprintStats, reviewPasses, allMissed>>

CallStart ==
  /\ pc = "constructed"
  /\ Call("start", 0, start(task[UnderTest]))

CallCreatePR ==
  /\ pc = "constructed"
  /\ Call("createPR", 0, createPR(task[UnderTest]))

CallReviewPR ==
  /\ pc = "constructed"
  /\ \E reviewer \in ReviewerNames :
       Call("reviewPR", reviewer, reviewPR(task[UnderTest], reviewer))

CallAddError ==
  /\ pc = "constructed"
  /\ \E lineNumber \in LineIndexes(taskLines(task[UnderTest].points)) :
       Call("addError", lineNumber, Ok(addError(task[UnderTest], lineNumber)))

NextTask == CallStart \/ CallCreatePR \/ CallReviewPR \/ CallAddError

SpecTask == Init /\ [][NextTask]_vars

\* ---- properties ------------------------------------------------------------
Lines(id) == LineIndexes(taskLines(task[id].points))
Required(id) == requiredReviews(taskLines(task[id].points))
PoolSize == Len(reviewerQueue)

PoolCoversRequired == \A id \in Tasks : Required(id) <= PoolSize

\* C1: the dispatcher never hands a task to a reviewer whose name is already
\* in the task's reviewedBy set: no assign() call of any step is made for a
\* reviewer that has reviewed the task.  Stated for the runs in which the
\* pool is large enough for every task, so that a reviewer who has not yet
\* reviewed the task always exists.
C1_NoDuplicateAssignment ==
  PoolCoversRequired => \A i \in 1..Len(assigned) : ~assigned[i].reviewed

\* C2: with developerErrorRate = 1 and reviewerErrorRate = 0, every line of
\* an authored task is in errorLines until the task is reviewed, and
\* errorLines is empty once the task has had a review pass.
C2_AllFlaggedThenAllCaught ==
  (SIM_CONFIG.DEVELOPER_ERROR_RATE = 100 /\ SIM_CONFIG.REVIEWER_ERROR_RATE = 0) =>
    \A id \in Tasks :
      /\ (task[id].state = READY_FOR_REVIEW /\ reviewPasses[id] = 0)
           => task[id].errorLines = Lines(id)
      /\ reviewPasses[id] >= 1 => task[id].errorLines = {}

\* C3: a line of a completed task is still in errorLines only if every
\* review pass of the task rolled a miss on it (so a line some pass rolled a
\* catch on is not in errorLines).
C3_SurvivesOnlyIfAllMissed ==
  \A id \in Tasks :
    task[id].state = COMPLETE => task[id].errorLines \subseteq allMissed[id]

\* C4: for every task (requiredReviews >= 1), between bus turns the task is
\* Complete if and only if |reviewedBy| >= requiredReviews; a task that needs
\* one review is Complete after its first reviewPR, and a task that needs
\* more is InReview in the state before the one it is first Complete in.
C4_CompleteIff ==
  \A id \in Tasks :
    Required(id) >= 1 =>
      /\ task[id].state = COMPLETE <=> length(task[id].reviewedBy) >= Required(id)
      /\ (Required(id) = 1 /\ reviewPasses[id] >= 1) => task[id].state = COMPLETE

C4_ThroughInReview ==
  \A id \in Tasks :
    (Required(id) > 1 /\ task[id].state # COMPLETE /\ task'[id].state = COMPLETE)
      => task[id].state = IN_REVIEW

C4_CompleteIffEnoughReviews == []C4_CompleteIff /\ [][C4_ThroughInReview]_vars

\* a task that needs two reviews has them and is Complete, and a task that
\* needs one was completed by its first review
C4_Witness ==
  /\ \E id \in Tasks :
       Required(id) = 2 /\ task[id].state = COMPLETE /\ length(task[id].reviewedBy) = 2
  /\ \E id \in Tasks :
       Required(id) = 1 /\ task[id].state = COMPLETE /\ reviewPasses[id] = 1

\* C5: a task with requiredReviews = 2, in a pool of at least 2 reviewers, is
\* InReview after exactly 1 review pass, never gets more than 2 passes, and
\* is Complete after exactly 2 passes by 2 distinct reviewers.
C5_ExactlyTwoPasses ==
  \A id \in Tasks :
    (Required(id) = 2 /\ PoolSize >= 2) =>
      /\ reviewPasses[id] = 1 => task[id].state = IN_REVIEW
      /\ reviewPasses[id] <= 2
      /\ task[id].state = COMPLETE =>
           reviewPasses[id] = 2 /\ length(task[id].reviewedBy) = 2

\* C6: with a pool at least as large as the largest requiredReviews, the
\* run never stopped and every pending reaction eventually run, the system
\* eventually has every backlog task in the completed list exactly once,
\* and none in the backlog, in flight or in a reviewer queue.
AllCompleted ==
  /\ Len(completed) = NumTasks
  /\ \A id \in Tasks : \E i \in 1..Len(completed) : completed[i] = id
  /\ todo = <<>>
  /\ immediateQueue = <<>>
  /\ \A r \in ReviewerNames : assignedTasks[r] = <<>>

C6_EventuallyAllCompleted == PoolCoversRequired ~> AllCompleted

\* C7: |reviewedBy| of a task never decreases in a step, and never exceeds
\* the number of reviewers in the pool.
C7_WithinPool ==
  \A id \in Tasks : length(task[id].reviewedBy) <= PoolSize

C7_NonDecreasing ==
  \A id \in Tasks : length(task'[id].reviewedBy) >= length(task[id].reviewedBy)

C7_ReviewedByGrowsWithinPool == []C7_WithinPool /\ [][C7_NonDecreasing]_vars

\* a reviewer has passed over a task twice and the whole pool has reviewed it
C7_Witness ==
  \E id \in Tasks :
    /\ length(task[id].reviewedBy) = PoolSize
    /\ PoolSize >= 2
    /\ reviewPasses[id] > length(task[id].reviewedBy)

\* C8: start(), createPR() or reviewPR(r) called on a task that is not in the
\* required source state (start: ToDo; createPR: InProgress; reviewPR:
\* ReadyForReview or InReview) throws and leaves the task's state, errorLines
\* and reviewedBy as they were.
SourceStates(fn) ==
  CASE fn = "start" -> {TO_DO}
    [] fn = "createPR" -> {IN_PROGRESS}
    [] fn = "reviewPR" -> {READY_FOR_REVIEW, IN_REVIEW}
    [] OTHER -> {TO_DO, IN_PROGRESS, READY_FOR_REVIEW, IN_REVIEW, COMPLETE}

C8_FailedCall ==
  (lastStep'.kind = "call" /\ task[lastStep'.val].state \notin SourceStates(lastStep'.fn))
    => thrown' /\ task'[lastStep'.val] = task[lastStep'.val]

C8_InvalidTransitionLeavesTask == [][C8_FailedCall]_vars

\* C9: under any sequence of start, createPR and reviewPR calls, failing
\* ones included, the state of a task never moves back along
\* ToDo < InProgress < ReadyForReview < InReview < Complete, and never
\* leaves Complete.
Rank(state) ==
  CASE state = TO_DO -> 0
    [] state = IN_PROGRESS -> 1
    [] state = READY_FOR_REVIEW -> 2
    [] state = IN_REVIEW -> 3
    [] state = COMPLETE -> 4

C9_Forward ==
  \A id \in Tasks : Rank(task'[id].state) >= Rank(task[id].state)

C9_StateForwardOnly == [][C9_Forward]_vars

\* a call has just failed on a task that is Complete
C9_Witness ==
  /\ lastStep.kind = "call"
  /\ lastStep.fn \in {"start", "createPR", "reviewPR"}
  /\ thrown
  /\ task[lastStep.val].state = COMPLETE

\* C10: a step runs one reaction only, the one at the head of the queue,
\* with the payload it was scheduled with; what was pending stays pending in
\* the same order; and behind it each emit of the step, in emit order, has
\* scheduled each listener registered for its event once, in subscription
\* order, with the emitted payload.
RECURSIVE Deliveries(_, _)
Deliveries(emits, ls) ==
  IF emits = <<>>
    THEN <<>>
    ELSE [i \in 1..Len(ls[Head(emits).event]) |->
            [reaction |-> ls[Head(emits).event][i], val |-> Head(emits).val]]
         \o Deliveries(Tail(emits), ls)

C10_Turn ==
  IF lastStep'.kind = "turn"
    THEN /\ immediateQueue # <<>>
         /\ Head(immediateQueue) =
              [reaction |-> Reaction(lastStep'.fn, lastStep'.self), val |-> lastStep'.val]
         /\ immediateQueue' = Tail(immediateQueue) \o Deliveries(published', listeners)
    ELSE immediateQueue' = immediateQueue \o Deliveries(published', listeners)

C10_DeferredOrderedDelivery == [][C10_Turn]_vars

\* a reaction has emitted two events while another reaction was pending, and
\* an event with two listeners has been emitted
C10_Witness ==
  /\ lastStep.kind = "turn"
  /\ Len(published) = 2
  /\ Len(immediateQueue) >= 3
  /\ immediateQueue[Len(immediateQueue)].reaction.fn = "assignTask"
  /\ immediateQueue[Len(immediateQueue) - 1].reaction.fn = "dispatchTaskToReviewer"

\* C11: between bus turns each task is in exactly one place: the backlog,
\* the payload of one pending assignment, review-request or fully-reviewed
\* reaction, a reviewer's queue, or the completed list.
Occurrences(seq, id) == Cardinality({i \in 1..Len(seq) : seq[i] = id})

\* the pending reactions whose payload is task id
Pending(id) ==
  {i \in 1..Len(immediateQueue) :
     /\ immediateQueue[i].reaction.fn \in
          {"performTask", "dispatchTaskToReviewer", "markTaskComplete"}
     /\ immediateQueue[i].val = id}

RECURSIVE SumQueues(_, _)
SumQueues(rs, id) ==
  IF rs = {}
    THEN 0
    ELSE LET r == CHOOSE x \in rs : TRUE
         IN  Occurrences(assignedTasks[r], id) + SumQueues(rs \ {r}, id)

Places(id) ==
  Occurrences(todo, id) + Cardinality(Pending(id))
    + SumQueues(ReviewerNames, id) + Occurrences(completed, id)

C11_ExactlyOnePlace == \A id \in Tasks : Places(id) = 1

\* C11 as amended: a task is never in two places, and is in exactly one as
\* long as the stop has not run; after the stop a task that a pending
\* reaction takes up is published to no listener and is in no place.
C11_OnePlaceUntilStop ==
  \A id \in Tasks :
    /\ Places(id) <= 1
    /\ pc # "stopped" => Places(id) = 1

\* the run is on, one task is completed and another is the payload of a
\* pending review request
C11_Witness ==
  /\ pc = "running"
  /\ \E id \in Tasks : Occurrences(completed, id) = 1
  /\ \E id \in Tasks :
       \E i \in Pending(id) : immediateQueue[i].reaction.fn = "dispatchTaskToReviewer"

\* the reaction fn has just run as a bus turn
Ran(fn) == lastStep'.kind = "turn" /\ lastStep'.fn = fn

InitialBacklog == [i \in 1..NumTasks |-> i]

\* the reactions a turn has added to the immediate queue
Scheduled ==
  SubSeq(immediateQueue', Len(immediateQueue), Len(immediateQueue'))

\* C12: the k-th task request handled while the backlog is non-empty removes
\* the k-th task of the initial backlog; the assignment is published for, and
\* received only by, the developer named in the request; a developer starts
\* only a task that is still ToDo, so no task is started twice.
C12_Assign ==
  /\ Ran("assignTask") /\ todo # <<>> =>
       LET name == lastStep'.val
           k == NumTasks - Len(todo) + 1
       IN  /\ todo = SubSeq(InitialBacklog, k, NumTasks)
           /\ todo' = Tail(todo)
           /\ published' = <<[event |-> DEV_TASK_ASSIGNMENT(name),
                              val |-> InitialBacklog[k]]>>
           /\ \A i \in 1..Len(Scheduled) :
                Scheduled[i] = [reaction |-> Reaction("performTask", name),
                                val |-> InitialBacklog[k]]
           /\ pc = "running" => Len(Scheduled) = 1
  /\ Ran("performTask") =>
       /\ task[lastStep'.val].state = TO_DO
       /\ task'[lastStep'.val].state # TO_DO
       /\ ~thrown'

C12_FifoAddressedAssignment == [][C12_Assign]_vars

\* the last task of the backlog has just been assigned to developer 2, whose
\* performTask reaction is pending with it
C12_Witness ==
  /\ lastStep = Step("turn", "assignTask", 0, NumDevelopers)
  /\ todo = <<>>
  /\ published = <<[event |-> DEV_TASK_ASSIGNMENT(NumDevelopers), val |-> NumTasks]>>
  /\ \E i \in 1..Len(immediateQueue) :
       immediateQueue[i] = [reaction |-> Reaction("performTask", NumDevelopers),
                            val |-> NumTasks]

\* developer d has nothing outstanding: no pending request, assignment or
\* start-of-sprint reaction of its own
Idle(d) ==
  \A i \in 1..Len(immediateQueue) :
    LET e == immediateQueue[i]
    IN  /\ ~(e.reaction.fn = "assignTask" /\ e.val = d)
        /\ ~(e.reaction.fn \in {"performTask", "requestTask"} /\ e.reaction.self = d)

\* developer d has been turned away: the sprint has started, the backlog is
\* empty and d has nothing outstanding
Stalled(d) == pc # "constructed" /\ todo = <<>> /\ Idle(d)

Requests(d) ==
  {i \in 1..Len(published') :
     published'[i] = [event |-> DEV_TASK_REQUEST, val |-> d]}

\* C13: a task request handled while the backlog is empty publishes nothing,
\* throws nothing and leaves the backlog, the completed list and every task
\* as they were; the developer that asked has nothing outstanding after it and
\* never publishes a task request again.
C13_Drop ==
  /\ Ran("assignTask") /\ todo = <<>> =>
       /\ published' = <<>>
       /\ Scheduled = <<>>
       /\ ~thrown'
       /\ todo' = todo /\ completed' = completed /\ task' = task
       /\ \E d \in Developers : d = lastStep'.val /\ Stalled(d)'
  /\ \A d \in Developers :
       Stalled(d) => Stalled(d)' /\ Requests(d) = {}

C13_EmptyBacklogRequestDropped == [][C13_Drop]_vars

\* a request of developer 1 has just been dropped while the run is on and
\* the other developer's work is still under way
C13_Witness ==
  /\ lastStep = Step("turn", "assignTask", 0, 1)
  /\ published = <<>>
  /\ todo = <<>>
  /\ pc = "running"
  /\ Stalled(1)
  /\ immediateQueue # <<>>

\* C14: the completed list changes only when a fully-reviewed event is
\* handled, and then by appending that event's task at the tail; every task
\* in it is Complete and none is in it twice.
C14_Append ==
  IF Ran("markTaskComplete")
    THEN completed' = Append(completed, lastStep'.val)
    ELSE completed' = completed

C14_Members ==
  \A i \in 1..Len(completed) :
    /\ task[completed[i]].state = COMPLETE
    /\ \A j \in 1..Len(completed) : completed[i] = completed[j] => i = j

C14_CompletedAppendOnly == [][C14_Append /\ C14_Members /\ C14_Members']_vars

\* every task has been appended, the last one behind the others
C14_Witness ==
  /\ lastStep.kind = "turn" /\ lastStep.fn = "markTaskComplete"
  /\ Len(completed) = NumTasks
  /\ completed[NumTasks] = lastStep.val

\* C15: once a task is Complete its errorLines and its reviewedBy never
\* change: no authoring pass and no review pass is run on a Complete task.
C15_Frozen ==
  /\ \A id \in Tasks :
       task[id].state = COMPLETE =>
         /\ task'[id].errorLines = task[id].errorLines
         /\ task'[id].reviewedBy = task[id].reviewedBy
  /\ Ran("performTask") \/ Ran("dispatchTaskToReviewer") =>
       task[lastStep'.val].state # COMPLETE

C15_CompleteTaskFrozen == [][C15_Frozen]_vars

\* a task was completed with an error line left in it, and a review pass on
\* another task has run since
C15_Witness ==
  /\ lastStep.kind = "turn" /\ lastStep.fn = "dispatchTaskToReviewer"
  /\ \E id \in Tasks :
       /\ id # lastStep.val
       /\ task[id].state = COMPLETE
       /\ task[id].errorLines # {}
       /\ task[id].reviewedBy # {}

\* the queue after k dispatch attempts: each moves the head to the tail
RECURSIVE RotateBy(_, _)
RotateBy(queue, k) ==
  IF k = 0 \/ queue = <<>>
    THEN queue
    ELSE RotateBy(Append(Tail(queue), Head(queue)), k - 1)

\* the rotation queue as constructed from a pool of n reviewers
InitialQueue(n) == [i \in 1..n |-> i]

\* C16: each dispatch attempt moves the head reviewer to the tail and keeps
\* the order of the others, so after a dispatch the reviewer that was given
\* the task is at the tail; nothing else changes the queue, which is always a
\* cyclic rotation of the initial one (every reviewer of the pool once).
C16_Rotate ==
  IF Ran("dispatchTaskToReviewer")
    THEN /\ \E k \in 1..Len(reviewerQueue) :
              reviewerQueue' = RotateBy(reviewerQueue, k)
         /\ Len(assigned') = 1
         /\ assigned'[1].reviewer = Head(reviewerQueue)
         /\ assigned'[1].reviewer = reviewerQueue'[Len(reviewerQueue')]
    ELSE reviewerQueue' = reviewerQueue

C16_IsRotation ==
  \E k \in 0..Len(reviewerQueue) :
    reviewerQueue = RotateBy(InitialQueue(Len(reviewerQueue)), k)

C16_DispatcherRotation == [][C16_Rotate /\ C16_IsRotation /\ C16_IsRotation']_vars

\* a dispatch has just put the first reviewer of a pool of several behind
\* the others
C16_Witness ==
  /\ lastStep.kind = "turn" /\ lastStep.fn = "dispatchTaskToReviewer"
  /\ Len(reviewerQueue) > 1
  /\ reviewerQueue = RotateBy(InitialQueue(Len(reviewerQueue)), 1)
  /\ assigned[1].reviewer = 1

\* every reviewer of the pool is in the task's reviewedBy
Exhausted(id) ==
  \A i \in 1..Len(reviewerQueue) : contains(task[id].reviewedBy, reviewerQueue[i])

\* C17: the dispatch of a task whose reviewedBy holds every reviewer of the
\* pool skips every reviewer, assigns the task to nobody and never returns,
\* so no bus turn ever completes such a dispatch.
C17_ExhaustedDispatchNeverReturns ==
  [][~(/\ Ran("dispatchTaskToReviewer")
       /\ \E id \in Tasks : id = lastStep'.val /\ Exhausted(id))]_vars

\* C18: a review pass publishes exactly one outcome event for its task:
\* fullyReviewed if the task is fully reviewed after reviewPR, otherwise
\* requestAdditionalReview, which (while listeners are attached) sends the
\* task back to the dispatcher.
C18_Outcome ==
  Ran("dispatchTaskToReviewer") =>
    \E id \in Tasks :
      /\ id = lastStep'.val
      /\ reviewPasses'[id] = IF reviewPasses[id] < MaxPasses
                               THEN reviewPasses[id] + 1
                               ELSE reviewPasses[id]
      /\ published' =
           <<[event |-> IF isFullyReviewed(task'[id])
                          THEN REV_FULLY_REVIEWED
                          ELSE REV_REQUEST_ADDITIONAL_REVIEW,
              val |-> id]>>
      /\ pc = "running" =>
           Scheduled =
             <<[reaction |-> Reaction(IF isFullyReviewed(task'[id])
                                        THEN "markTaskComplete"
                                        ELSE "dispatchTaskToReviewer", 0),
                val |-> id]>>

C18_OneOutcomePerPass == [][C18_Outcome]_vars

\* a pass has just asked for an additional review of its task, and an
\* earlier pass reported another task as fully reviewed
C18_Witness ==
  /\ lastStep.kind = "turn" /\ lastStep.fn = "dispatchTaskToReviewer"
  /\ published = <<[event |-> REV_REQUEST_ADDITIONAL_REVIEW, val |-> lastStep.val]>>
  /\ ~isFullyReviewed(task[lastStep.val])
  /\ \E id \in Tasks : task[id].state = COMPLETE

\* C19: once the stop has run no task changes state, no authoring or review
\* pass runs and the completed list does not change, even for reactions that
\* were scheduled before the stop and had not run yet.
C19_NothingAfterStop ==
  [][pc = "stopped" =>
       /\ task' = task
       /\ completed' = completed
       /\ ~Ran("performTask") /\ ~Ran("dispatchTaskToReviewer")]_vars

\* C19 as amended: the stop cancels nothing that is already scheduled.  After
\* it the reactions pending at that moment still run, one per turn (tasks are
\* authored, reviewed, completed), but what they publish reaches no listener:
\* no new reaction is ever scheduled, the pending ones only run out, and the
\* report made at the stop is not changed.
C19_AfterStop ==
  pc = "stopped" =>
    /\ pc' = "stopped"
    /\ lastStep'.kind = "turn"
    /\ immediateQueue' = Tail(immediateQueue)
    /\ listeners' = listeners
    /\ \A e \in EVENTS : listeners[e] = <<>>
    /\ sprintStats' = sprintStats

C19_OnlyPendingReactionsAfterStop == [][C19_AfterStop]_vars

\* after the stop a pending review pass has run and completed a task, and its
\* fully-reviewed event was delivered to nobody
C19_Witness ==
  /\ pc = "stopped"
  /\ lastStep.kind = "turn" /\ lastStep.fn = "dispatchTaskToReviewer"
  /\ task[lastStep.val].state = COMPLETE
  /\ published = <<[event |-> REV_FULLY_REVIEWED, val |-> lastStep.val]>>
  /\ immediateQueue = <<>>
  /\ Occurrences(completed, lastStep.val) = 0

\* C20: between bus turns every reviewer has isReviewing = false and an
\* empty assignedTasks: the assign call that receives a task drains the
\* queue, head first, before it returns, and no drain loop is left running.
C20_Drained ==
  \A r \in ReviewerNames : ~isReviewing[r] /\ assignedTasks[r] = <<>>

C20_Pass ==
  Ran("dispatchTaskToReviewer") =>
    /\ Len(assigned') = 1
    /\ assigned'[1].task = lastStep'.val
    /\ reviewPasses[lastStep'.val] < MaxPasses =>
         reviewPasses' = [reviewPasses EXCEPT ![lastStep'.val] = @ + 1]

C20_ReviewerDrainsWithinTurn == [][C20_Drained /\ C20_Drained' /\ C20_Pass]_vars

\* the second reviewer has just been assigned a task and reviewed it
C20_Witness ==
  /\ lastStep.kind = "turn" /\ lastStep.fn = "dispatchTaskToReviewer"
  /\ assigned = <<[reviewer |-> MaxReviewers, task |-> lastStep.val, reviewed |-> FALSE]>>
  /\ reviewPasses[lastStep.val] > 0
  /\ C20_Drained

\* ---- a team with fewer developers than tasks ------------------------------
\* runSimulation with developerNames cut down to the developers
\* FirstHired..NumDevelopers: the others are never constructed, so they
\* register no listener.
FirstHired == 2

Hired == FirstHired..NumDevelopers

IsHired(reaction) == reaction.self = 0 \/ reaction.self \in Hired

HiredListeners ==
  [e \in EVENTS |-> SelectSeq(ConstructedListeners[e], IsHired)]

InitHired ==
  /\ SIM_CONFIG \in Configs
  /\ \E points \in [Tasks -> 1..MaxPoints] :
       task = [id \in Tasks |-> NewTask(points[id])]
  /\ todo = [i \in 1..NumTasks |-> i]
  /\ completed = <<>>
  /\ \E n \in 1..MaxReviewers : reviewerQueue = [i \in 1..n |-> i]
  /\ assignedTasks = [r \in ReviewerNames |-> <<>>]
  /\ isReviewing = [r \in ReviewerNames |-> FALSE]
  /\ listeners = HiredListeners
  /\ immediateQueue = <<>>
  /\ batchLeft = 0
  /\ pc = "constructed"
  /\ thrown = FALSE
  /\ sprintStats = [totalPoints |-> 0, totalLines |-> 0, totalErrorLines |-> 0,
                    reviews |-> 0, prsReviewed |-> 0]
  /\ lastStep = Step("new", "runSimulation", 0, 0)
  /\ published = <<>>
  /\ assigned = <<>>
  /\ reviewPasses = [id \in Tasks |-> 0]
  /\ allMissed = [id \in Tasks |-> LineIndexes(taskLines(task[id].points))]

SpecHired == InitHired /\ [][Next]_vars

\* the pending reactions that are developer d's own: its start-of-sprint
\* reaction, the handling of its task request, an assignment addressed to it
Outstanding(d) ==
  {i \in 1..Len(immediateQueue) :
     LET e == immediateQueue[i]
     IN  \/ e.reaction.fn = "assignTask" /\ e.val = d
         \/ e.reaction.fn \in {"performTask", "requestTask"} /\ e.reaction.self = d}

\* the tasks that have left the backlog and are not yet submitted for review
InFlight ==
  {id \in Tasks :
     Occurrences(todo, id) = 0 /\ task[id].state \in {TO_DO, IN_PROGRESS}}

\* C21: after the start of the sprint each developer has at most one
\* outstanding item (a pending task request or a pending assignment
\* addressed to it), so the tasks that have left the backlog and are not yet
\* submitted for review are never more than the developers.
C21_PullLoopClosed ==
  /\ \A d \in Developers :
       /\ Cardinality(Outstanding(d)) <= 1
       /\ d \notin Hired => Outstanding(d) = {}
  /\ Cardinality(InFlight) <= Cardinality(Hired)

\* every developer holds a task it has not started yet, and the backlog
\* still has a task for which no developer is free
C21_Witness ==
  /\ pc = "running"
  /\ todo # <<>>
  /\ Cardinality(InFlight) = Cardinality(Hired)
  /\ \A d \in Hired :
       \E i \in Outstanding(d) : immediateQueue[i].reaction.fn = "performTask"

====
